---- MODULE Spec2Model ----
(***************************************************************************)
(* patch_headers.py of purduesigbots/pros: the script that copies every    *)
(* header of the V5 SDK include directory into patched_include/, putting   *)
(* __attribute__((pcs("aapcs"))) in front of each line it takes for a      *)
(* function declaration.                                                   *)
(*                                                                         *)
(* Text is modelled character by character: a string is a sequence of      *)
(* one-character strings, so that strip(), startswith(), endswith(), `in`, *)
(* isspace() and splitlines() are computed the way Python computes them.   *)
(* The run starts after current_dir has been resolved (l.15-18):           *)
(* dirname(realpath(__file__)) does not fail for a script run from a file. *)
(***************************************************************************)
EXTENDS Integers, Sequences, FiniteSets, TLC

\* Bounds of the model.
MaxLines == 4      \* lines per header in the line-classifier specification
MaxBlocks == 3     \* parts per header in the end-to-end specification
MaxRuns == 2       \* consecutive runs of the script over the same directories

----------------------------------------------------------------------------
\* Python string primitives.

Whitespace == {" ", "\t", "\n", "\r", "\f"}
LineBreaks == {"\n", "\r", "\f"}

RECURSIVE lstrip(_)
lstrip(s) == IF s # <<>> /\ Head(s) \in Whitespace THEN lstrip(Tail(s)) ELSE s

RECURSIVE rstrip(_)
rstrip(s) ==
    IF s # <<>> /\ s[Len(s)] \in Whitespace THEN rstrip(SubSeq(s, 1, Len(s) - 1)) ELSE s

strip(s) == rstrip(lstrip(s))

startswith(s, p) == Len(s) >= Len(p) /\ SubSeq(s, 1, Len(p)) = p

endswith(s, p) == Len(s) >= Len(p) /\ SubSeq(s, Len(s) - Len(p) + 1, Len(s)) = p

contains(s, p) == \E i \in 1..(Len(s) - Len(p) + 1) : SubSeq(s, i, i + Len(p) - 1) = p

isspace(s) == s # <<>> /\ \A i \in 1..Len(s) : s[i] \in Whitespace

\* The index of the first character of s that is in `chars`, 0 when none is.
find_first(s, chars) ==
    IF \E i \in 1..Len(s) : s[i] \in chars
    THEN CHOOSE i \in 1..Len(s) : s[i] \in chars /\ \A j \in 1..(i - 1) : s[j] \notin chars
    ELSE 0

\* What follows the line break that starts at index i of s ("\r\n" is one break).
after_break(s, i) ==
    IF s[i] = "\r" /\ i < Len(s) /\ s[i + 1] = "\n"
    THEN SubSeq(s, i + 2, Len(s))
    ELSE SubSeq(s, i + 1, Len(s))

\* str.splitlines(): the text cut at every "\n", "\r", "\r\n" and "\f" (of the
\* further separators Python knows none occurs in the texts below); the line
\* breaks are not kept and a final line break opens no further line.
RECURSIVE splitlines(_)
splitlines(s) ==
    LET i == find_first(s, LineBreaks)
    IN  IF i = 0 THEN (IF s = <<>> THEN <<>> ELSE <<s>>)
        ELSE <<SubSeq(s, 1, i - 1)>> \o splitlines(after_break(s, i))

\* file.read() of a file opened with "r": universal newlines, every "\r\n"
\* and every lone "\r" of the file arrives as "\n".
RECURSIVE read_text(_)
read_text(data) ==
    LET i == find_first(data, {"\r"})
    IN  IF i = 0 THEN data
        ELSE SubSeq(data, 1, i - 1) \o <<"\n">> \o read_text(after_break(data, i))

\* file.write() of a file opened with "w": every "\n" leaves as the
\* platform's line separator.
RECURSIVE write_text(_, _)
write_text(text, sep) ==
    LET i == find_first(text, {"\n"})
    IN  IF i = 0 THEN text
        ELSE SubSeq(text, 1, i - 1) \o sep \o write_text(SubSeq(text, i + 1, Len(text)), sep)

----------------------------------------------------------------------------
\* The line classifier (the body of the loop over header_file.splitlines()).

ATTRIBUTE == <<"_", "_", "a", "t", "t", "r", "i", "b", "u", "t", "e", "_", "_", "(", "(", "p", "c", "s", "(", "\"", "a", "a", "p", "c", "s", "\"", ")", ")", ")">>
    \* __attribute__((pcs("aapcs")))

BACKSLASH == <<"\\">>
CALL_END == <<")", ";">>
KW_extern == <<"e", "x", "t", "e", "r", "n">>
KW_typedef == <<"t", "y", "p", "e", "d", "e", "f">>
KW_struct == <<"s", "t", "r", "u", "c", "t">>
KW_enum == <<"e", "n", "u", "m">>

startswith_any(s, ps) == \E p \in ps : startswith(s, p)

is_comment(line) == startswith_any(strip(line), {<<"/">>, <<"*">>})

is_directive(line) == startswith_any(strip(line), {<<"#">>})

\* (a variant that forgets `extern`)
is_block_marker_no_extern(line) == startswith_any(strip(line), {<<"}">>, <<"{">>})

is_block_marker(line) == startswith_any(strip(line), {<<"}">>, <<"{">>, KW_extern})

is_type_decl(line) == startswith_any(strip(line), {KW_typedef, KW_struct, KW_enum})

is_blank(line) == line = <<>> \/ isspace(line)

no_call_end(line) == ~contains(line, CALL_END)

\* (a variant that emits the stripped line)
emit_stripped(out, line) == out \o strip(line) \o <<"\n">>

\* output += f"{line}\n"
emit(out, line) == out \o line \o <<"\n">>

\* output += f"__attribute__((pcs(\"aapcs\"))) {line}\n"
emit_patched(out, line) == out \o ATTRIBUTE \o <<" ">> \o line \o <<"\n">>

\* (a variant that copies the continuation line instead of dropping it)
continuation_copied(line, skip, out) ==
    [skip_next_line |-> IF ~endswith(line, BACKSLASH) THEN FALSE ELSE skip,
     output |-> out \o line \o <<"\n">>]

\* (a variant that looks for the backslash at the end of the stripped line)
continuation_stripped(line, skip, out) ==
    [skip_next_line |-> IF ~endswith(strip(line), BACKSLASH) THEN FALSE ELSE skip,
     output |-> out]

\* (a variant that skips one line only)
continuation_one_line(line, skip, out) == [skip_next_line |-> FALSE, output |-> out]

\* A line reached with skip_next_line set: it is dropped, and the flag stays
\* set only while the line ends with a backslash.
continuation(line, skip, out) ==
    [skip_next_line |-> IF ~endswith(line, BACKSLASH) THEN FALSE ELSE skip,
     output |-> out]

\* (a variant that never sets the flag)
directive_no_flag(line, skip, out) ==
    [skip_next_line |-> skip, output |-> out \o line \o <<"\n">>]

\* (a variant that looks for the backslash at the end of the stripped line)
directive_stripped(line, skip, out) ==
    [skip_next_line |-> IF endswith(strip(line), BACKSLASH) THEN TRUE ELSE skip,
     output |-> out \o line \o <<"\n">>]

\* A preprocessor directive: emitted, and a trailing backslash sets the flag.
directive(line, skip, out) ==
    [skip_next_line |-> IF endswith(line, BACKSLASH) THEN TRUE ELSE skip,
     output |-> emit(out, line)]

\* One iteration of the loop: the flag and the output after `line`.
loop_body(line, skip, out) ==
    IF skip THEN continuation(line, skip, out)
    ELSE IF is_comment(line) THEN [skip_next_line |-> skip, output |-> emit(out, line)]
    ELSE IF is_directive(line) THEN directive(line, skip, out)
    ELSE IF is_block_marker(line) THEN [skip_next_line |-> skip, output |-> emit(out, line)]
    ELSE IF is_type_decl(line) THEN [skip_next_line |-> skip, output |-> emit(out, line)]
    ELSE IF is_blank(line) THEN [skip_next_line |-> skip, output |-> emit(out, line)]
    ELSE IF no_call_end(line) THEN [skip_next_line |-> skip, output |-> emit(out, line)]
    ELSE [skip_next_line |-> skip, output |-> emit_patched(out, line)]

\* The whole loop over one header, run from a clear flag and an empty output:
\* what `output` holds when the loop over `lines` ends.
RECURSIVE run_loop(_, _, _)
run_loop(ls, skip, out) ==
    IF ls = <<>> THEN out
    ELSE LET r == loop_body(Head(ls), skip, out)
         IN  run_loop(Tail(ls), r.skip_next_line, r.output)

transform(header_text) == run_loop(splitlines(header_text), FALSE, <<>>)

\* The content of the patched file of a header whose bytes are `data`.
patched_text(data, sep) == write_text(transform(read_text(data)), sep)

----------------------------------------------------------------------------
\* Input data: header lines, header texts and file names.

LineDecl == <<"v", "o", "i", "d", " ", " ", "v", "e", "x", "D", "e", "v", "i", "c", "e", "G", "e", "t", "(", "v", "o", "i", "d", ")", ";">>
    \* void  vexDeviceGet(void);
LineComment == <<"/", "/", " ", "c", "o", "m", "m", "e", "n", "t">>
    \* // comment
LineStarCall == <<" ", "*", " ", "f", "(", "x", ")", ";">>
    \*  * f(x);
LineDefine == <<"#", "d", "e", "f", "i", "n", "e", " ", "X", " ", "1">>
    \* #define X 1
LineMacro == <<"#", "d", "e", "f", "i", "n", "e", " ", "M", "(", "a", ")", " ", "\\">>
    \* #define M(a) \
LineMacroWs == <<" ", "#", "i", "f", " ", "Y", "(", ")", ";", " ", "\\", " ">>
    \*  #if Y(); \   (a space follows the backslash)
LineContCall == <<" ", " ", "f", "(", "a", ")", ";", " ", "\\">>
    \*   f(a); \
LineTypedef == <<"t", "y", "p", "e", "d", "e", "f", " ", "i", "n", "t", " ", "f", "o", "o", "_", "t", ";">>
    \* typedef int foo_t;
LineTypedefFn == <<"t", "y", "p", "e", "d", "e", "f", " ", "v", "o", "i", "d", " ", "(", "*", "c", "b", ")", "(", "i", "n", "t", ")", ";">>
    \* typedef void (*cb)(int);
LineBrace == <<"{">>
LineBlank == <<" ", "\t">>
LineEmpty == <<>>
LineStmt == <<"x", " ", "=", " ", "1", ";">>
    \* x = 1;
LineExternFn == <<"e", "x", "t", "e", "r", "n", " ", "i", "n", "t", " ", "e", "(", "v", "o", "i", "d", ")", ";">>
    \* extern int e(void);
LineStructFn == <<"s", "t", "r", "u", "c", "t", " ", "s", " ", "*", "p", "(", "v", "o", "i", "d", ")", ";">>
    \* struct s *p(void);
LineEnumFn == <<"\t", "e", "n", "u", "m", " ", "e", " ", "q", "(", "v", "o", "i", "d", ")", ";">>
    \* <tab>enum e q(void);
LineCloseCall == <<"}", " ", "w", "(", "0", ")", ";">>
    \* } w(0);
LineIndentDecl == <<" ", " ", "i", "n", "t", " ", "g", "(", "i", "n", "t", " ", "a", ")", ";", " ">>
    \*   int g(int a);   (two spaces before, one after)

LineContEnd == <<" ", " ", " ", " ", " ", " ", "(", "a", ")", ";">>
    \*       (a);
LineStructOpen == <<"s", "t", "r", "u", "c", "t", " ", "s", " ", "{">>
    \* struct s {
LineMember == <<" ", " ", "i", "n", "t", " ", "m", ";">>
    \*   int m;
LineStructClose == <<"}", ";">>
    \* };

LineCommentCont == <<"/", "/", " ", "c", " ", "\\">>
    \* // c \
LineDeclOpen == <<"i", "n", "t", " ", "h", "(", "i", "n", "t", " ", "a", ",">>
    \* int h(int a,
LineDeclClose == <<" ", " ", " ", " ", " ", " ", "i", "n", "t", " ", "b", ")", ";">>
    \*       int b);

LinePool ==
    {LineDecl, LineComment, LineStarCall, LineDefine, LineMacro, LineMacroWs,
     LineContCall, LineTypedef, LineTypedefFn, LineBrace, LineBlank, LineEmpty,
     LineStmt, LineExternFn, LineStructFn, LineEnumFn, LineCloseCall, LineIndentDecl,
     LineCommentCont, LineDeclOpen, LineDeclClose}

LF == <<"\n">>
CRLF == <<"\r", "\n">>

\* The text of a header whose lines are ls, each ended by `sep`.
RECURSIVE join_lines(_, _)
join_lines(ls, sep) ==
    IF ls = <<>> THEN <<>> ELSE Head(ls) \o sep \o join_lines(Tail(ls), sep)

\* The lines that set, keep or clear the continuation flag differently, or
\* are classified differently.
CorePool ==
    {LineMacro, LineMacroWs, LineContCall, LineDecl, LineStarCall, LineStmt, LineEmpty}

\* Headers of at most two lines of any kind, and of at most MaxLines core lines.
LineSeqs ==
    UNION {[1..n -> LinePool] : n \in 0..2} \cup UNION {[1..n -> CorePool] : n \in 3..MaxLines}

\* A macro of three lines and the line after it, for every line of the pool.
MacroSeqs == {<<LineMacro, LineContCall, l1, l2>> : l1, l2 \in LinePool}

\* The parts a header is made of: a macro of three lines, a function
\* declaration of one line, a struct block, a comment line.
BlockMacro == <<LineMacro, LineContCall, LineContEnd>>
BlockStruct == <<LineStructOpen, LineMember, LineStructClose>>
Blocks ==
    {BlockMacro, BlockStruct, <<LineDecl>>, <<LineIndentDecl>>, <<LineExternFn>>,
     <<LineComment>>, <<LineStarCall>>}

RECURSIVE flatten(_)
flatten(bs) == IF bs = <<>> THEN <<>> ELSE Head(bs) \o flatten(Tail(bs))

BlockSeqs == {flatten(bs) : bs \in UNION {[1..n -> Blocks] : n \in 1..MaxBlocks}}

NameA == <<"a", ".", "h">>
NameB == <<"b", ".", "h">>
NameC == <<"c", ".", "h", "h">>
Names == {NameA, NameB, NameC}
DOT_H == <<".", "h">>

\* a header that ends inside a macro continuation
TextOpenMacro == join_lines(<<LineStmt, LineMacro, LineContCall>>, LF)
\* a header with CRLF line ends and no line end after its last line
TextCrLf == LineDecl \o CRLF \o LineStarCall \o CRLF \o LineStructFn
\* a header of one declaration
TextDecl == join_lines(<<LineIndentDecl>>, LF)
FileTexts == {TextOpenMacro, TextCrLf, TextDecl}

NoEntry == [kind |-> "none", data |-> <<>>]
DirEntry == [kind |-> "dir", data |-> <<>>]
FileEntry(t) == [kind |-> "file", data |-> t]
Entries == {NoEntry, DirEntry} \cup {FileEntry(t) : t \in FileTexts}

----------------------------------------------------------------------------
(***************************************************************************)
(* version.py of the same repository: the script that derives the semantic *)
(* version from `git describe` and stamps it into include/api.h. It shares *)
(* no state with patch_headers.py.                                         *)
(***************************************************************************)

\* Python string primitives of version.py.

DIGITS == <<"0", "1", "2", "3", "4", "5", "6", "7", "8", "9">>

isdigits(s) == s # <<>> /\ \A i \in 1..Len(s) : \E d \in 1..Len(DIGITS) : DIGITS[d] = s[i]

digit_value(c) == (CHOOSE d \in 1..Len(DIGITS) : DIGITS[d] = c) - 1

\* int(s) for a string of decimal digits (leading zeros are read away); for
\* the other strings below int() raises ValueError.
RECURSIVE int(_)
int(s) ==
    IF s = <<>> THEN 0
    ELSE Len(DIGITS) * int(SubSeq(s, 1, Len(s) - 1)) + digit_value(s[Len(s)])

\* str(n) for n >= 0
RECURSIVE str(_)
str(n) ==
    IF n < Len(DIGITS) THEN <<DIGITS[n + 1]>>
    ELSE str(n \div Len(DIGITS)) \o <<DIGITS[(n % Len(DIGITS)) + 1]>>

\* The index of the last character of s that is in `chars`, 0 when none is.
find_last(s, chars) ==
    IF \E i \in 1..Len(s) : s[i] \in chars
    THEN CHOOSE i \in 1..Len(s) : s[i] \in chars /\ \A j \in (i + 1)..Len(s) : s[j] \notin chars
    ELSE 0

\* s.count(c) for a character c
count(s, c) == Cardinality({i \in 1..Len(s) : s[i] = c})

\* s.split(c, n) for a character c: at most n cuts, from the left
RECURSIVE split(_, _, _)
split(s, c, n) ==
    LET i == find_first(s, {c})
    IN  IF n = 0 \/ i = 0 THEN <<s>>
        ELSE <<SubSeq(s, 1, i - 1)>> \o split(SubSeq(s, i + 1, Len(s)), c, n - 1)

\* file.readlines() of a file opened with "r": universal newlines, and every
\* line keeps its "\n".
RECURSIVE cut_lines(_)
cut_lines(text) ==
    LET i == find_first(text, {"\n"})
    IN  IF i = 0 THEN (IF text = <<>> THEN <<>> ELSE <<text>>)
        ELSE <<SubSeq(text, 1, i)>> \o cut_lines(SubSeq(text, i + 1, Len(text)))

readlines(data) == cut_lines(read_text(data))

----------------------------------------------------------------------------
\* The derivation of the semantic version (version.py l.8-22).

DASH == <<"-">>
DOT == <<".">>
DIRTY_END == <<"-", "d", "i", "r", "t", "y">>
    \* -dirty
KW_dirty == <<"d", "i", "r", "t", "y">>
    \* dirty
KW_commit == <<"c", "o", "m", "m", "i", "t">>
    \* commit
KW_pr == <<"p", "r">>
    \* pr

\* v[:v.index('-')]
base_tag(v) == SubSeq(v, 1, find_first(v, {"-"}) - 1)

\* bv.rindex('.') finds a dot and int() can read what follows it
can_bump(bv) ==
    LET r == find_last(bv, {"."})
    IN  r # 0 /\ isdigits(SubSeq(bv, r + 1, Len(bv)))

\* bv[:bv.rindex('.') + 1] + str(int(bv[bv.rindex('.') + 1:]) + 1)
bump(bv) ==
    LET r == find_last(bv, {"."})
    IN  SubSeq(bv, 1, r) \o str(int(SubSeq(bv, r + 1, Len(bv))) + 1)

\* semver = bv + '-' + sempre + '.' + build
suffixed(bv, sempre, build) == bv \o DASH \o sempre \o DOT \o build

\* 'dirty' if v.endswith('-dirty') else 'commit'
local_sempre(v) == IF endswith(v, DIRTY_END) THEN KW_dirty ELSE KW_commit

\* "{}.{}".format(number_since, build)
local_build(number_since, hash) == number_since \o DOT \o hash

\* An optional value: os.environ.get() gives None for a variable that is not set.
None == <<>>
Some(s) == <<s>>
truthy(o) == o # None /\ o[1] # <<>>

----------------------------------------------------------------------------
\* The rewrite of include/api.h (version.py l.31-43).

DEF_MAJOR == <<"#", "d", "e", "f", "i", "n", "e", " ", "P", "R", "O", "S", "_", "V", "E", "R", "S", "I", "O", "N", "_", "M", "A", "J", "O", "R">>
    \* #define PROS_VERSION_MAJOR
DEF_MINOR == <<"#", "d", "e", "f", "i", "n", "e", " ", "P", "R", "O", "S", "_", "V", "E", "R", "S", "I", "O", "N", "_", "M", "I", "N", "O", "R">>
    \* #define PROS_VERSION_MINOR
DEF_PATCH == <<"#", "d", "e", "f", "i", "n", "e", " ", "P", "R", "O", "S", "_", "V", "E", "R", "S", "I", "O", "N", "_", "P", "A", "T", "C", "H">>
    \* #define PROS_VERSION_PATCH
DEF_STRING == <<"#", "d", "e", "f", "i", "n", "e", " ", "P", "R", "O", "S", "_", "V", "E", "R", "S", "I", "O", "N", "_", "S", "T", "R", "I", "N", "G", " ">>
    \* '#define PROS_VERSION_STRING '

\* u'#define PROS_VERSION_MAJOR {}\n'.format(major), and the like
define_line(def, value) == def \o <<" ">> \o value \o LF

\* u'#define PROS_VERSION_STRING "{}"\n'.format(semver)
string_line(value) == DEF_STRING \o <<"\"">> \o value \o <<"\"">> \o LF

\* The body of `for i, line in enumerate(data)`: the four tests are made on
\* the line as it was read, the last one that matches decides.
stamp_line(l, major, minor, patch, semver) ==
    IF contains(l, DEF_STRING) THEN string_line(semver)
    ELSE IF contains(l, DEF_PATCH) THEN define_line(DEF_PATCH, patch)
    ELSE IF contains(l, DEF_MINOR) THEN define_line(DEF_MINOR, minor)
    ELSE IF contains(l, DEF_MAJOR) THEN define_line(DEF_MAJOR, major)
    ELSE l

stamp(data, major, minor, patch, semver) ==
    [i \in 1..Len(data) |-> stamp_line(data[i], major, minor, patch, semver)]

\* file.writelines(data) of a file opened with newline='\n': the lines, as they are
writelines(data) == flatten(data)

----------------------------------------------------------------------------
\* The inputs of version.py.

Tag316 == <<"3", ".", "1", ".", "6">>
    \* 3.1.6
Tag319 == <<"3", ".", "1", ".", "9">>
    \* 3.1.9
Tag41 == <<"4", ".", "1">>
    \* 4.1
Tag3201 == <<"3", ".", "2", ".", "0", ".", "1">>
    \* 3.2.0.1
Tag3 == <<"3">>
    \* 3
Tag31x == <<"3", ".", "1", ".", "x">>
    \* 3.1.x
Tags == {Tag316, Tag319, Tag41, Tag3201, Tag3, Tag31x}

ShortHash == <<"a", "b", "c", "1", "2", "3", "4">>
    \* abc1234
Since5 == <<"5">>
    \* 5
Since0 == <<"0">>
    \* 0
PrNumber == <<"1", "2">>
    \* 12
BuildId == <<"3", "4", "5">>
    \* 345

\* What `git describe --dirty --abbrev` prints: the tag, then the number of
\* commits since the tag and the abbreviated commit when HEAD is not the
\* tagged commit, then -dirty when the working tree is modified.
DescribeOutputs ==
    {t \o ahead \o dirty \o LF :
        t \in Tags,
        ahead \in {<<>>, DASH \o Since5 \o DASH \o <<"g">> \o ShortHash},
        dirty \in {<<>>, DIRTY_END}}

\* What `git rev-parse --short HEAD` and `git rev-list <tag>..HEAD --count` print.
RevParseOutputs == {ShortHash \o LF}
RevListOutputs == {Since0 \o LF, Since5 \o LF}

ApiGuard == <<"#", "i", "f", "n", "d", "e", "f", " ", "_", "P", "R", "O", "S", "_", "A", "P", "I", "_", "H", "_">>
    \* #ifndef _PROS_API_H_
ApiMajor == <<"#", "d", "e", "f", "i", "n", "e", " ", "P", "R", "O", "S", "_", "V", "E", "R", "S", "I", "O", "N", "_", "M", "A", "J", "O", "R", " ", "3">>
    \* #define PROS_VERSION_MAJOR 3
ApiMinor == <<"#", "d", "e", "f", "i", "n", "e", " ", "P", "R", "O", "S", "_", "V", "E", "R", "S", "I", "O", "N", "_", "M", "I", "N", "O", "R", " ", "0">>
    \* #define PROS_VERSION_MINOR 0
ApiPatch == <<"#", "d", "e", "f", "i", "n", "e", " ", "P", "R", "O", "S", "_", "V", "E", "R", "S", "I", "O", "N", "_", "P", "A", "T", "C", "H", " ", "0">>
    \* #define PROS_VERSION_PATCH 0
ApiString == <<"#", "d", "e", "f", "i", "n", "e", " ", "P", "R", "O", "S", "_", "V", "E", "R", "S", "I", "O", "N", "_", "S", "T", "R", "I", "N", "G", " ", "\"", "3", ".", "0", ".", "0", "\"">>
    \* #define PROS_VERSION_STRING "3.0.0"
ApiInclude == <<"#", "i", "n", "c", "l", "u", "d", "e", " ", "\"", "p", "r", "o", "s", "/", "m", "i", "s", "c", ".", "h", "\"">>
    \* #include "pros/misc.h"
ApiLines == <<ApiGuard, ApiMajor, ApiMinor, ApiPatch, ApiString, ApiInclude>>

\* include/api.h as checked out with LF and with CRLF line ends
ApiTexts == {join_lines(ApiLines, LF), join_lines(ApiLines, CRLF)}

MSG_semantic == <<"S", "e", "m", "a", "n", "t", "i", "c", " ", "v", "e", "r", "s", "i", "o", "n", " ", "i", "s", " ">>
    \* 'Semantic version is '
MSG_git == <<"E", "r", "r", "o", "r", " ", "c", "a", "l", "l", "i", "n", "g", " ", "g", "i", "t">>
    \* Error calling git

----------------------------------------------------------------------------
\* State.

VARIABLES
    pc,              \* the statement the script is at
    include_dir,     \* the entries of include_path, by name
    patched_exists,  \* whether patched_include_path exists
    patched_dir,     \* the entries of patched_include_path, by name
    linesep,         \* the platform's line separator
    all_files, files, file_i,
    header_file, lines, line_i, output, skip_next_line,
    stdout, exit_code,
    run              \* the number of the current run

fs == <<include_dir, patched_exists, patched_dir, linesep>>
locals == <<all_files, files, file_i, header_file, lines, line_i, output, skip_next_line>>

\* The state of version.py.
VARIABLES
    vpc,             \* the statement version.py is at
    environ,         \* the two environment variables the script reads
    v, semver, major, minor, patch,
    version_file,    \* the file `version`, None while it does not exist
    api_h,           \* the text of include/api.h
    version_out,     \* what version.py has printed
    exception        \* the exception that was raised, "" when none was

version_vars == <<vpc, environ, v, semver, major, minor, patch, version_file, api_h,
                  version_out, exception>>
patch_vars == <<pc, include_dir, patched_exists, patched_dir, linesep, all_files, files,
                file_i, header_file, lines, line_i, output, skip_next_line, stdout,
                exit_code, run>>
vars == <<pc, include_dir, patched_exists, patched_dir, linesep, all_files, files,
          file_i, header_file, lines, line_i, output, skip_next_line, stdout,
          exit_code, run, vpc, environ, v, semver, major, minor, patch, version_file,
          api_h, version_out, exception>>

file_name == files[file_i]
line == lines[line_i]

FreshLocals ==
    /\ all_files = <<>> /\ files = <<>> /\ file_i = 0
    /\ header_file = <<>> /\ lines = <<>> /\ line_i = 1
    /\ output = <<>> /\ skip_next_line = FALSE

\* version.py has not run a statement yet.
VersionStart ==
    /\ vpc = "describe"
    /\ v = <<>> /\ semver = <<>> /\ major = <<>> /\ minor = <<>> /\ patch = <<>>
    /\ version_file = None
    /\ version_out = <<>>
    /\ exception = ""

\* version.py is not run: a local checkout, include/api.h as checked out.
VersionIdle ==
    /\ VersionStart
    /\ environ = [SYSTEM_PULLREQUEST_PULLREQUESTNUMBER |-> None, BUILD_BUILDID |-> None]
    /\ api_h = join_lines(ApiLines, LF)

\* patch_headers.py is not run: no SDK directory, nothing patched.
PatchIdle ==
    /\ pc = "exists"
    /\ include_dir = [n \in Names |-> NoEntry]
    /\ patched_exists = FALSE
    /\ patched_dir = [n \in Names |-> NoEntry]
    /\ linesep = LF
    /\ FreshLocals
    /\ stdout = <<>> /\ exit_code = -1
    /\ run = 1

\* The script is started: both directories are as some earlier build left them.
Init ==
    /\ pc = "exists"
    /\ include_dir \in [Names -> Entries]
    /\ patched_exists \in BOOLEAN
    /\ patched_dir \in {[n \in Names |-> NoEntry],
                        [n \in Names |-> IF n = NameA /\ patched_exists
                                         THEN FileEntry(LineStmt) ELSE NoEntry]}
    /\ linesep \in {LF, CRLF}
    /\ FreshLocals
    /\ stdout = <<>> /\ exit_code = -1
    /\ run = 1
    /\ VersionIdle

\* The script is about to enter the loop over `files` with one header to patch.
InitLines ==
    /\ pc = "next_file"
    /\ \E ls \in LineSeqs \cup MacroSeqs :
          include_dir = [n \in Names |-> IF n = NameA THEN FileEntry(join_lines(ls, LF))
                                         ELSE NoEntry]
    /\ patched_exists = TRUE
    /\ patched_dir = [n \in Names |-> NoEntry]
    /\ linesep = LF
    /\ all_files = <<NameA>> /\ files = <<NameA>> /\ file_i = 0
    /\ header_file = <<>> /\ lines = <<>> /\ line_i = 1
    /\ output = <<>> /\ skip_next_line = FALSE
    /\ stdout = <<>> /\ exit_code = -1
    /\ run = 1
    /\ VersionIdle

\* The same, with a header made of a few whole parts.
InitBlocks ==
    /\ pc = "next_file"
    /\ \E ls \in BlockSeqs :
          include_dir = [n \in Names |-> IF n = NameA THEN FileEntry(join_lines(ls, LF))
                                         ELSE NoEntry]
    /\ patched_exists = TRUE
    /\ patched_dir = [n \in Names |-> NoEntry]
    /\ linesep = LF
    /\ all_files = <<NameA>> /\ files = <<NameA>> /\ file_i = 0
    /\ header_file = <<>> /\ lines = <<>> /\ line_i = 1
    /\ output = <<>> /\ skip_next_line = FALSE
    /\ stdout = <<>> /\ exit_code = -1
    /\ run = 1
    /\ VersionIdle

----------------------------------------------------------------------------
\* The script, statement by statement.

\* (a variant that prints the diagnostic and lets the script go on)
print_and_go_on(message) ==
    /\ stdout' = stdout \o <<message, "Failed to patch libv5rts">>
    /\ exit_code' = 1
    /\ pc' = IF pc = "makedirs" THEN "listdir"
             ELSE IF pc = "listdir" THEN "filter"
             ELSE "next_file"

\* print_and_exit(message)
print_and_exit(message) ==
    /\ stdout' = stdout \o <<message, "Failed to patch libv5rts">>
    /\ exit_code' = 1
    /\ pc' = "exited"

\* (a variant that takes only a directory with files in it for a patched one)
CheckPatchedByContent ==
    /\ pc = "exists"
    /\ IF patched_exists /\ \E n \in DOMAIN patched_dir : patched_dir[n].kind = "file"
       THEN /\ stdout' = stdout \o <<"libv5rts already patched">>
            /\ exit_code' = 0
            /\ pc' = "exited"
       ELSE /\ pc' = "makedirs"
            /\ UNCHANGED <<stdout, exit_code>>
    /\ UNCHANGED <<fs, locals, run>>
    /\ UNCHANGED version_vars

\* (a variant without the guard: the script goes on to makedirs())
CheckPatchedUnguarded ==
    /\ pc = "exists"
    /\ pc' = "makedirs"
    /\ UNCHANGED <<stdout, exit_code, fs, locals, run>>
    /\ UNCHANGED version_vars

\* if exists(patched_include_path): print(...); exit(0)
CheckPatched ==
    /\ pc = "exists"
    /\ IF patched_exists
       THEN /\ stdout' = stdout \o <<"libv5rts already patched">>
            /\ exit_code' = 0
            /\ pc' = "exited"
       ELSE /\ pc' = "makedirs"
            /\ UNCHANGED <<stdout, exit_code>>
    /\ UNCHANGED <<fs, locals, run>>
    /\ UNCHANGED version_vars

\* makedirs(patched_include_path): raises when the directory exists or cannot
\* be created.
MakeDirs ==
    /\ pc = "makedirs"
    /\ \E ok \in BOOLEAN :
          IF ok /\ ~patched_exists
          THEN /\ patched_exists' = TRUE
               /\ pc' = "listdir"
               /\ UNCHANGED <<stdout, exit_code>>
          ELSE /\ print_and_exit("Could not create directory for patched libv5rts")
               /\ UNCHANGED patched_exists
    /\ UNCHANGED <<include_dir, patched_dir, linesep, locals, run>>
    /\ UNCHANGED version_vars

\* The orders in which listdir() may return the names of a directory.
listings(dir) ==
    LET present == {n \in DOMAIN dir : dir[n].kind # "none"}
    IN  {s \in [1..Cardinality(present) -> present] :
            \A i, j \in DOMAIN s : i # j => s[i] # s[j]}

\* all_files = listdir(include_path)
ListDir ==
    /\ pc = "listdir"
    /\ \/ /\ \E s \in listings(include_dir) : all_files' = s
          /\ pc' = "filter"
          /\ UNCHANGED <<stdout, exit_code>>
       \/ /\ print_and_exit("Error getting directories and files in include path")
          /\ UNCHANGED all_files
    /\ UNCHANGED <<fs, files, file_i, header_file, lines, line_i, output,
                   skip_next_line, run>>
    /\ UNCHANGED version_vars

\* (a variant that looks for ".h" anywhere in the name)
is_header_anywhere(dir, f) == dir[f].kind = "file" /\ contains(f, DOT_H)

\* isfile(join(include_path, f)) and str(f).endswith(".h")
is_header(dir, f) == dir[f].kind = "file" /\ endswith(f, DOT_H)

\* files = [f for f in all_files if it is a header]
FilterFiles ==
    /\ pc = "filter"
    /\ files' = SelectSeq(all_files, LAMBDA f : is_header(include_dir, f))
    /\ pc' = "next_file"
    /\ UNCHANGED <<fs, all_files, file_i, header_file, lines, line_i, output,
                   skip_next_line, stdout, exit_code, run>>
    /\ UNCHANGED version_vars

\* (a variant that empties output once, before the loop over the files)
NextFileKeepsOutput ==
    /\ pc = "next_file"
    /\ file_i < Len(files)
    /\ file_i' = file_i + 1
    /\ header_file' = <<>>
    /\ skip_next_line' = FALSE
    /\ pc' = "read"
    /\ UNCHANGED <<fs, all_files, files, lines, line_i, output, stdout, exit_code, run>>
    /\ UNCHANGED version_vars

\* (a variant that sets skip_next_line once, before the loop over the files)
NextFileStaleFlag ==
    /\ pc = "next_file"
    /\ file_i < Len(files)
    /\ file_i' = file_i + 1
    /\ header_file' = <<>>
    /\ output' = <<>>
    /\ pc' = "read"
    /\ UNCHANGED <<fs, all_files, files, lines, line_i, skip_next_line, stdout,
                   exit_code, run>>
    /\ UNCHANGED version_vars

\* for file_name in files: header_file = ""; output = ""; skip_next_line = False
NextFile ==
    /\ pc = "next_file"
    /\ file_i < Len(files)
    /\ file_i' = file_i + 1
    /\ header_file' = <<>>
    /\ output' = <<>>
    /\ skip_next_line' = FALSE
    /\ pc' = "read"
    /\ UNCHANGED <<fs, all_files, files, lines, line_i, stdout, exit_code, run>>
    /\ UNCHANGED version_vars

\* The loop over `files` is over: print("libv5rts patched successfully")
Finish ==
    /\ pc = "next_file"
    /\ file_i = Len(files)
    /\ stdout' = stdout \o <<"libv5rts patched successfully">>
    /\ exit_code' = 0
    /\ pc' = "exited"
    /\ UNCHANGED <<fs, locals, run>>
    /\ UNCHANGED version_vars

\* with open(join(include_path, file_name), "r") as file: header_file = file.read()
\* and the evaluation of header_file.splitlines() the line loop starts with.
ReadHeader ==
    /\ pc = "read"
    /\ \/ /\ include_dir[file_name].kind = "file"
          /\ header_file' = read_text(include_dir[file_name].data)
          /\ lines' = splitlines(header_file')
          /\ line_i' = 1
          /\ pc' = "line"
          /\ UNCHANGED <<stdout, exit_code>>
       \/ /\ print_and_exit("Failed to open file in v5rts")
          /\ UNCHANGED <<header_file, lines, line_i>>
    /\ UNCHANGED <<fs, all_files, files, file_i, output, skip_next_line, run>>
    /\ UNCHANGED version_vars

\* (a variant that stays on a line that was dropped as a continuation)
LineStepStays ==
    /\ pc = "line"
    /\ line_i <= Len(lines)
    /\ LET r == loop_body(line, skip_next_line, output)
       IN  /\ skip_next_line' = r.skip_next_line
           /\ output' = r.output
    /\ line_i' = IF skip_next_line THEN line_i ELSE line_i + 1
    /\ UNCHANGED <<pc, fs, all_files, files, file_i, header_file, lines, stdout,
                   exit_code, run>>
    /\ UNCHANGED version_vars

\* One iteration of `for line in header_file.splitlines()`.
LineStep ==
    /\ pc = "line"
    /\ line_i <= Len(lines)
    /\ LET r == loop_body(line, skip_next_line, output)
       IN  /\ skip_next_line' = r.skip_next_line
           /\ output' = r.output
    /\ line_i' = line_i + 1
    /\ UNCHANGED <<pc, fs, all_files, files, file_i, header_file, lines, stdout,
                   exit_code, run>>
    /\ UNCHANGED version_vars

\* with open(join(<directory>, file_name), "w") as file: file.write(output)
\* open() may fail; when write() fails the file open() made holds only the
\* start of the text.
write_header(into_patched) ==
    /\ pc = "line"
    /\ line_i > Len(lines)
    /\ LET text == write_text(output, linesep)
           cut  == SubSeq(text, 1, Len(text) \div 2)
           put(t) ==
               IF into_patched
               THEN /\ patched_dir' = [patched_dir EXCEPT ![file_name] = FileEntry(t)]
                    /\ UNCHANGED include_dir
               ELSE /\ include_dir' = [include_dir EXCEPT ![file_name] = FileEntry(t)]
                    /\ UNCHANGED patched_dir
       IN  \/ /\ put(text)
              /\ pc' = "next_file"
              /\ UNCHANGED <<stdout, exit_code>>
           \/ /\ UNCHANGED <<include_dir, patched_dir>>
              /\ print_and_exit("Failed to write patched file")
           \/ /\ \E t \in {<<>>, cut} : put(t)
              /\ print_and_exit("Failed to write patched file")
    /\ UNCHANGED <<patched_exists, linesep, locals, run>>
    /\ UNCHANGED version_vars

\* (a variant that writes to join(include_path, file_name))
WriteHeaderInPlace == write_header(FALSE)

\* The write goes to join(patched_include_path, file_name).
WriteHeader == write_header(TRUE)

\* The script is run again over the directories the last run left.
Rerun ==
    /\ pc = "exited"
    /\ run < MaxRuns
    /\ run' = run + 1
    /\ pc' = "exists"
    /\ all_files' = <<>> /\ files' = <<>> /\ file_i' = 0
    /\ header_file' = <<>> /\ lines' = <<>> /\ line_i' = 1
    /\ output' = <<>> /\ skip_next_line' = FALSE
    /\ stdout' = <<>> /\ exit_code' = -1
    /\ UNCHANGED fs
    /\ UNCHANGED version_vars

Next ==
    \/ CheckPatched \/ MakeDirs \/ ListDir \/ FilterFiles
    \/ NextFile \/ Finish \/ ReadHeader \/ LineStep \/ WriteHeader
    \/ Rerun

Spec == Init /\ [][Next]_vars

NextLines == NextFile \/ Finish \/ ReadHeader \/ LineStep \/ WriteHeader

SpecLines == InitLines /\ [][NextLines]_vars

\* The interpreter goes on executing the `for line in lines` loop (l.52) for
\* as long as a line is left.
SpecLinesFair == InitLines /\ [][NextLines]_vars /\ WF_vars(LineStep)

SpecBlocks == InitBlocks /\ [][NextLines]_vars

----------------------------------------------------------------------------
\* version.py, statement by statement.

\* except subprocess.CalledProcessError as e: print('Error calling git')
git_failed ==
    /\ version_out' = Append(version_out, MSG_git)
    /\ exception' = "CalledProcessError"
    /\ vpc' = "done"

\* An exception the script does not catch ends it.
raise(e) ==
    /\ exception' = e
    /\ vpc' = "raised"
    /\ UNCHANGED version_out

\* v = subprocess.check_output(['git', 'describe', '--dirty', '--abbrev']).decode().strip()
Describe ==
    /\ vpc = "describe"
    /\ \/ /\ \E out \in DescribeOutputs : v' = strip(out)
          /\ vpc' = "derive"
          /\ UNCHANGED <<version_out, exception>>
       \/ /\ git_failed
          /\ UNCHANGED v
    /\ UNCHANGED <<environ, semver, major, minor, patch, version_file, api_h, patch_vars>>

\* if '-' in v: ... semver = bv + '-' + sempre + '.' + build  else: semver = v
Derive ==
    /\ vpc = "derive"
    /\ IF ~contains(v, DASH)
       THEN /\ semver' = v
            /\ vpc' = "write_version"
            /\ UNCHANGED <<version_out, exception>>
       ELSE IF ~can_bump(base_tag(v))
       THEN /\ raise("ValueError")
            /\ UNCHANGED semver
       ELSE IF truthy(environ.SYSTEM_PULLREQUEST_PULLREQUESTNUMBER)
       THEN IF environ.BUILD_BUILDID = None
            THEN /\ raise("TypeError")
                 /\ UNCHANGED semver
            ELSE /\ semver' = suffixed(bump(base_tag(v)),
                                       KW_pr \o environ.SYSTEM_PULLREQUEST_PULLREQUESTNUMBER[1],
                                       environ.BUILD_BUILDID[1])
                 /\ vpc' = "write_version"
                 /\ UNCHANGED <<version_out, exception>>
       ELSE \/ /\ \E hash \in RevParseOutputs, number_since \in RevListOutputs :
                     semver' = suffixed(bump(base_tag(v)), local_sempre(v),
                                        local_build(strip(number_since), strip(hash)))
               /\ vpc' = "write_version"
               /\ UNCHANGED <<version_out, exception>>
            \/ /\ git_failed
               /\ UNCHANGED semver
    /\ UNCHANGED <<environ, v, major, minor, patch, version_file, api_h, patch_vars>>

\* with open('version', 'w') as f: print('Semantic version is ' + semver); f.write(semver)
WriteVersion ==
    /\ vpc = "write_version"
    /\ \/ /\ version_file' = Some(semver)
          /\ version_out' = Append(version_out, MSG_semantic \o semver)
          /\ vpc' = "split"
          /\ UNCHANGED exception
       \/ /\ raise("IOError")
          /\ UNCHANGED version_file
    /\ UNCHANGED <<environ, v, semver, major, minor, patch, api_h, patch_vars>>

\* assert semver.count('.') >= 2; major, minor, patch = semver.split('.', 2);
\* patch = patch.split('-', 1)[0]
SplitSemver ==
    /\ vpc = "split"
    /\ IF count(semver, ".") >= 2
       THEN LET parts == split(semver, ".", 2)
            IN  /\ major' = parts[1]
                /\ minor' = parts[2]
                /\ patch' = split(parts[3], "-", 1)[1]
                /\ vpc' = "rewrite"
                /\ UNCHANGED <<version_out, exception>>
       ELSE /\ raise("AssertionError")
            /\ UNCHANGED <<major, minor, patch>>
    /\ UNCHANGED <<environ, v, semver, version_file, api_h, patch_vars>>

\* data = file.readlines(); the loop over data; file.writelines(data)
RewriteApi ==
    /\ vpc = "rewrite"
    /\ \/ /\ api_h' = writelines(stamp(readlines(api_h), major, minor, patch, semver))
          /\ vpc' = "done"
          /\ UNCHANGED <<version_out, exception>>
       \/ /\ raise("IOError")
          /\ UNCHANGED api_h
    /\ UNCHANGED <<environ, v, semver, major, minor, patch, version_file, patch_vars>>

\* version.py is started in a checkout, on a developer's machine or in the
\* pull-request builder.
InitVersion ==
    /\ VersionStart
    /\ environ \in [SYSTEM_PULLREQUEST_PULLREQUESTNUMBER : {None, Some(<<>>), Some(PrNumber)},
                    BUILD_BUILDID : {None, Some(BuildId)}]
    /\ api_h \in ApiTexts
    /\ PatchIdle

NextVersion == Describe \/ Derive \/ WriteVersion \/ SplitSemver \/ RewriteApi

SpecVersion == InitVersion /\ [][NextVersion]_vars

----------------------------------------------------------------------------
\* Properties of the line classifier, checked under SpecLines.

\* The script is about to process lines[line_i].
AtLine == pc = "line" /\ line_i <= Len(lines)

\* The loop over the lines of the current header has ended.
LoopDone == pc = "line" /\ line_i > Len(lines)

\* The line just processed, in a state inside the line loop.
LastLine == lines[line_i - 1]

Patched(l) == ATTRIBUTE \o <<" ">> \o l \o LF
Verbatim(l) == l \o LF

ExcludedStarts ==
    {<<"/">>, <<"*">>, <<"#">>, <<"}">>, <<"{">>, KW_extern, KW_typedef, KW_struct, KW_enum}

\* The conditions on the line itself under which it is taken for a function
\* declaration: no excluded start after stripping, not blank, contains ");".
DeclarationShape(l) ==
    /\ \A p \in ExcludedStarts : ~startswith(strip(l), p)
    /\ ~(l = <<>> \/ \A i \in 1..Len(l) : l[i] \in Whitespace)
    /\ \E i \in 1..(Len(l) - 1) : l[i] = ")" /\ l[i + 1] = ";"

\* C1: a line is emitted as the attribute, one space and the line itself if
\* and only if the continuation flag is clear when the line is reached and the
\* line has the shape of a declaration; `void  vexDeviceGet(void);` reached
\* with the flag clear is emitted that way.
C1_AttributeIff ==
    [][AtLine =>
          /\ (output' = output \o Patched(line)) <=> (~skip_next_line /\ DeclarationShape(line))
          /\ (line = LineDecl /\ ~skip_next_line) =>
                 output' = output \o ATTRIBUTE \o <<" ">> \o LineDecl \o LF]_vars

C1_Witness ==
    /\ pc = "line" /\ line_i = 2
    /\ LastLine = LineDecl
    /\ output = ATTRIBUTE \o <<" ">> \o LineDecl \o LF

\* The line at index i ends a macro of three lines: a directive ending in a
\* backslash that is reached with the flag clear, a line ending in a
\* backslash, and line i, which does not end in one.
EndsMacroOfThree(i) ==
    /\ i >= 3
    /\ (i = 3 \/ ~endswith(lines[i - 3], BACKSLASH))
    /\ startswith(strip(lines[i - 2]), <<"#">>) /\ endswith(lines[i - 2], BACKSLASH)
    /\ endswith(lines[i - 1], BACKSLASH)
    /\ ~endswith(lines[i], BACKSLASH)

\* C2: a line processed while the continuation flag is set adds nothing to
\* the output; after a directive ending in a backslash, a line ending in a
\* backslash and a line not ending in one, the output still ends with the
\* directive and the next line is emitted as rules 2-8 alone decide.
C2_ContinuationDropped ==
    /\ [][(AtLine /\ skip_next_line) => output' = output]_vars
    /\ [][(AtLine /\ line_i >= 4 /\ EndsMacroOfThree(line_i - 1)) =>
             /\ ~skip_next_line
             /\ endswith(output, Verbatim(lines[line_i - 3]))
             /\ output' = output \o (IF DeclarationShape(line) THEN Patched(line)
                                     ELSE Verbatim(line))]_vars

C2_Witness ==
    /\ pc = "line" /\ line_i = 5
    /\ EndsMacroOfThree(3)
    /\ contains(lines[2], CALL_END) /\ contains(lines[3], CALL_END)
    /\ lines[4] = LineDecl
    /\ output = Verbatim(lines[1]) \o Patched(LineDecl)

\* C3: a line reached with the flag clear that is a comment, a directive, a
\* block marker, a type declaration, blank, or without ");" is emitted as it is.
C3_PassThrough ==
    [][(AtLine /\ ~skip_next_line /\ ~DeclarationShape(line)) =>
          output' = output \o line \o LF]_vars

C3_Witness ==
    /\ pc = "line" /\ line_i = 3
    /\ lines[1] = LineBlank /\ lines[2] = LineTypedefFn
    /\ output = LineBlank \o LF \o LineTypedefFn \o LF

\* The lines of ls that are not processed as macro continuations, in order:
\* the flag is set by a directive ending in a backslash that is reached with
\* the flag clear, and stays set up to and including the first line that does
\* not end in a backslash.
RECURSIVE KeptLines(_, _)
KeptLines(ls, flag) ==
    IF ls = <<>> THEN <<>>
    ELSE IF flag THEN KeptLines(Tail(ls), endswith(Head(ls), BACKSLASH))
    ELSE <<Head(ls)>> \o
         KeptLines(Tail(ls), startswith(strip(Head(ls)), <<"#">>)
                             /\ endswith(Head(ls), BACKSLASH))

\* C4: the output lines are the input lines without the continuation lines,
\* in order, each either as it is or behind the attribute and a space; so
\* their number is the number of input lines less the continuation lines.
C4_LinesKeptInOrder ==
    pc = "line" =>
        LET done == SubSeq(lines, 1, line_i - 1)
            kept == KeptLines(done, FALSE)
            outl == splitlines(output)
        IN  /\ Len(outl) = Len(kept)
            /\ \A k \in 1..Len(kept) :
                  outl[k] = kept[k] \/ outl[k] = ATTRIBUTE \o <<" ">> \o kept[k]
            /\ output = join_lines(outl, LF)
            /\ Len(outl) = Len(done) - Cardinality({k \in 1..Len(done) :
                                 KeptLines(SubSeq(done, 1, k), FALSE)
                                   = KeptLines(SubSeq(done, 1, k - 1), FALSE)})

C4_Witness ==
    /\ LoopDone
    /\ Len(lines) = 4
    /\ Len(splitlines(output)) = 2
    /\ \E k \in 1..2 : splitlines(output)[k] = ATTRIBUTE \o <<" ">> \o LineDecl

\* C5 as stated: the transform of a transformed header is that transformed
\* header again.
C5_Idempotent == LoopDone => transform(output) = output

\* No directive ending in a backslash is followed by a further line.
NoOpenDirective(ls) ==
    \A k \in 1..(Len(ls) - 1) :
        ~(startswith(strip(ls[k]), <<"#">>) /\ endswith(ls[k], BACKSLASH))

\* C5 as amended: the transform of a transformed header is that header again
\* exactly when the transformed header holds no line of declaration shape (no
\* attribute was inserted) and no directive ending in a backslash that another
\* line follows.
C5_IdempotentIff ==
    LoopDone =>
        LET outl == splitlines(output)
        IN  (transform(output) = output) <=>
                /\ \A k \in 1..Len(outl) : ~DeclarationShape(outl[k])
                /\ NoOpenDirective(outl)

\* a patched declaration is patched again by a second application
C5_Witness ==
    /\ LoopDone
    /\ lines = <<LineDecl>>
    /\ output = Patched(LineDecl)
    /\ transform(output) = ATTRIBUTE \o <<" ">> \o ATTRIBUTE \o <<" ">> \o LineDecl \o LF

----------------------------------------------------------------------------
\* The end-to-end scenario, checked under SpecBlocks.

MacroContinuationLines == {LineContCall, LineContEnd}
FunctionDeclarationLines == {LineDecl, LineIndentDecl, LineExternFn}

\* What the scenario expects of a header made of the parts above: the
\* continuation lines gone, the declarations behind the attribute, the rest
\* as it is.
RECURSIVE ExpectedLines(_)
ExpectedLines(ls) ==
    IF ls = <<>> THEN <<>>
    ELSE IF Head(ls) \in MacroContinuationLines THEN ExpectedLines(Tail(ls))
    ELSE IF Head(ls) \in FunctionDeclarationLines
         THEN <<ATTRIBUTE \o <<" ">> \o Head(ls)>> \o ExpectedLines(Tail(ls))
    ELSE <<Head(ls)>> \o ExpectedLines(Tail(ls))

OneMacro(ls) == Cardinality({k \in 1..Len(ls) : ls[k] = LineMacro}) = 1

\* C6: of a header made of one multi-line macro, one-line function
\* declarations, a struct block and comment lines, the output holds exactly
\* the declarations behind the attribute, lacks exactly the continuation
\* lines of the macro, and holds every other line as it is.
C6_EndToEnd ==
    (LoopDone /\ OneMacro(lines)) => splitlines(output) = ExpectedLines(lines)

----------------------------------------------------------------------------
\* Properties of a run of the script, checked under Spec.

\* C7: the flag is clear and the output empty before the first line of every
\* file, and when the line loop of a file ends the output is the transform of
\* that file's text alone, whatever files were processed before it.
C7_PerFileFunction ==
    /\ pc = "read" => (~skip_next_line /\ output = <<>>)
    /\ LoopDone => output = transform(read_text(include_dir[file_name].data))

\* the second file of a run whose first file ended inside a macro
C7_Witness ==
    /\ LoopDone /\ file_i = 2
    /\ include_dir[files[1]].data = TextOpenMacro
    /\ include_dir[files[2]].data = TextDecl
    /\ output = Patched(LineIndentDecl)

\* C8: a run that finds the destination directory prints the already-patched
\* message and exits with code 0, having listed, read and written nothing.
C8_AlreadyPatched ==
    [][(pc = "exists" /\ patched_exists) =>
          /\ pc' = "exited" /\ exit_code' = 0
          /\ stdout' = <<"libv5rts already patched">>
          /\ include_dir' = include_dir
          /\ patched_exists' = patched_exists /\ patched_dir' = patched_dir
          /\ all_files' = <<>> /\ files' = <<>> /\ header_file' = <<>>
          /\ output' = <<>>]_vars

C8_Witness ==
    /\ pc = "exited" /\ exit_code = 0 /\ run = 1
    /\ stdout = <<"libv5rts already patched">>
    /\ include_dir[NameA].kind = "file"
    /\ patched_dir[NameA] = FileEntry(LineStmt) /\ patched_dir[NameB] = NoEntry

\* C9: no step of any run changes the source include directory.
C9_SourceUntouched == [][include_dir' = include_dir]_vars

\* a run that wrote a patched header and then aborted
C9_Witness ==
    /\ pc = "exited" /\ exit_code = 1
    /\ \E n \in Names :
          /\ include_dir[n] = FileEntry(TextCrLf)
          /\ patched_dir[n] = FileEntry(patched_text(TextCrLf, linesep))

\* C10: after the success message the destination directory holds, for each
\* regular file of the source directory whose name ends in ".h", a file of
\* that name with the transform of its text, and nothing else.
C10_PatchedTree ==
    (pc = "exited" /\ exit_code = 0 /\ stdout = <<"libv5rts patched successfully">>) =>
        \A n \in Names :
            patched_dir[n] =
                IF include_dir[n].kind = "file" /\ endswith(n, <<".", "h">>)
                THEN FileEntry(patched_text(include_dir[n].data, linesep))
                ELSE NoEntry

C10_Witness ==
    /\ pc = "exited" /\ exit_code = 0
    /\ stdout = <<"libv5rts patched successfully">>
    /\ include_dir[NameC].kind = "file" /\ patched_dir[NameC] = NoEntry
    /\ patched_dir[NameA].kind = "file" /\ patched_dir[NameB].kind = "file"

\* The diagnostic that belongs to the operation the script is at.
Diagnostic ==
    IF pc = "makedirs" THEN "Could not create directory for patched libv5rts"
    ELSE IF pc = "listdir" THEN "Error getting directories and files in include path"
    ELSE IF pc = "read" THEN "Failed to open file in v5rts"
    ELSE "Failed to write patched file"

\* C11: a failed makedirs, listdir, read or write ends the run at once with
\* its diagnostic and exit code 1: the files written before stay as they are,
\* the run does nothing further, and it never prints the success message.
C11_FailureIsFatal ==
    /\ [][(pc # "exited" /\ exit_code' # exit_code /\ exit_code' # 0) =>
             /\ pc' = "exited" /\ exit_code' = 1
             /\ stdout' = <<Diagnostic, "Failed to patch libv5rts">>
             /\ include_dir' = include_dir
             /\ \A n \in Names :
                   (patched_dir[n] # NoEntry \/ pc # "line" \/ n # file_name)
                       => patched_dir'[n] = patched_dir[n]]_vars
    /\ [][(pc = "exited" /\ run' = run) => UNCHANGED vars]_vars
    /\ [](exit_code = 1 =>
             /\ pc = "exited"
             /\ \A k \in 1..Len(stdout) : stdout[k] # "libv5rts patched successfully")

\* a run that patched one header and failed to read the next
C11_Witness ==
    /\ pc = "exited" /\ exit_code = 1
    /\ stdout = <<"Failed to open file in v5rts", "Failed to patch libv5rts">>
    /\ file_i = 2
    /\ patched_dir[files[1]] = FileEntry(patched_text(include_dir[files[1]].data, linesep))
    /\ patched_dir[files[2]] = NoEntry

\* The line break that ends each line of a text, <<>> for a last line that
\* has none.
RECURSIVE LineEnds(_)
LineEnds(s) ==
    LET i == find_first(s, LineBreaks)
    IN  IF i = 0 THEN (IF s = <<>> THEN <<>> ELSE << <<>> >>)
        ELSE <<SubSeq(s, i, Len(s) - Len(after_break(s, i)))>> \o LineEnds(after_break(s, i))

\* The indices, from k on, of the lines of ls that are not macro continuations.
RECURSIVE KeptIndices(_, _, _)
KeptIndices(ls, k, flag) ==
    IF k > Len(ls) THEN <<>>
    ELSE IF flag THEN KeptIndices(ls, k + 1, endswith(ls[k], BACKSLASH))
    ELSE <<k>> \o KeptIndices(ls, k + 1, startswith(strip(ls[k]), <<"#">>)
                                        /\ endswith(ls[k], BACKSLASH))

\* C12: every line of a patched header ends as that line ends in the source
\* header: the same line break, and none after a last line that has none.
C12_LineEndsPreserved ==
    (pc = "exited" /\ exit_code = 0 /\ stdout = <<"libv5rts patched successfully">>) =>
        \A n \in Names :
            patched_dir[n].kind = "file" =>
                LET src  == include_dir[n].data
                    kept == KeptIndices(splitlines(src), 1, FALSE)
                    ends == LineEnds(patched_dir[n].data)
                IN  /\ Len(ends) = Len(kept)
                    /\ \A k \in 1..Len(kept) : ends[k] = LineEnds(src)[kept[k]]

----------------------------------------------------------------------------
\* Further properties of the line classifier, checked under SpecLines.

\* C13: skip_next_line is false before the first line of a header; a line
\* reached with the flag clear sets it exactly when its stripped text starts
\* with "#" and the line itself ends with a backslash; a line reached with
\* the flag set leaves it set exactly when the line ends with a backslash;
\* nothing else changes it but the reset for the next header.
C13_FlagRule ==
    /\ [](pc = "read" => ~skip_next_line)
    /\ [][AtLine =>
             skip_next_line' =
                 IF skip_next_line THEN endswith(line, BACKSLASH)
                 ELSE startswith(strip(line), <<"#">>) /\ endswith(line, BACKSLASH)]_vars
    /\ [][~AtLine =>
             \/ skip_next_line' = skip_next_line
             \/ pc = "next_file" /\ pc' = "read" /\ ~skip_next_line']_vars

\* a comment ending in a backslash and a directive whose backslash is followed
\* by a space have left the flag clear
C13_Witness ==
    /\ pc = "line" /\ line_i = 3
    /\ lines = <<LineCommentCont, LineMacroWs>>
    /\ ~skip_next_line
    /\ output = Verbatim(LineCommentCont) \o Verbatim(LineMacroWs)

----------------------------------------------------------------------------
\* Further properties of a run of the script, checked under Spec.

\* A step that changes the entry n of the destination directory.
Writes(n) == patched_dir'[n] # patched_dir[n]

\* C14 as stated: a destination file comes from one write, made once the line
\* loop of its header has ended, and holds the whole transform of the source
\* file of the same name; no file is written twice.
C14_WholeFilesOnly ==
    [][\A n \in Names :
          Writes(n) =>
              /\ LoopDone /\ n = file_name
              /\ patched_dir[n] = NoEntry
              /\ patched_dir'[n] = FileEntry(patched_text(include_dir[n].data, linesep))]_vars

\* t is the start of u.
Prefix(t, u) == Len(t) <= Len(u) /\ t = SubSeq(u, 1, Len(t))

\* C14 as amended: the same, but for a write that fails: it may leave a file
\* with only the start of the transform, and the run ends there with exit
\* code 1.
C14_WholeUnlessWriteFails ==
    [][\A n \in Names :
          Writes(n) =>
              /\ LoopDone /\ n = file_name
              /\ patched_dir[n] = NoEntry
              /\ LET whole == patched_text(include_dir[n].data, linesep)
                 IN  \/ /\ patched_dir'[n] = FileEntry(whole)
                        /\ pc' = "next_file"
                     \/ /\ patched_dir'[n].kind = "file"
                        /\ Prefix(patched_dir'[n].data, whole)
                        /\ pc' = "exited" /\ exit_code' = 1
                        /\ stdout' = <<"Failed to write patched file",
                                       "Failed to patch libv5rts">>]_vars

\* the second header of a run has been written whole
C14_Witness ==
    /\ pc = "next_file" /\ file_i = 2
    /\ include_dir[files[1]].data = TextCrLf
    /\ include_dir[files[2]].data = TextOpenMacro
    /\ patched_dir[files[2]] = FileEntry(patched_text(TextOpenMacro, linesep))
    /\ patched_dir[files[1]] = FileEntry(patched_text(TextCrLf, linesep))

\* C15: the destination directory, once there, stays; and from the end of any
\* run that leaves it there (an aborted one too) every further run only checks
\* that it exists, reports already-patched with exit code 0 and writes
\* nothing, so a header the aborted run did not write is never written.
C15_ExistenceGates ==
    /\ [][patched_exists => patched_exists']_vars
    /\ [][(pc = "exited" /\ patched_exists) =>
             (pc' = "exists" /\ run' = run + 1 /\ patched_dir' = patched_dir)]_vars
    /\ [][(pc = "exists" /\ patched_exists) =>
             /\ pc' = "exited" /\ exit_code' = 0
             /\ stdout' = <<"libv5rts already patched">>
             /\ patched_dir' = patched_dir]_vars

\* the run after one that wrote a.h and aborted before b.h
C15_Witness ==
    /\ run = 2 /\ pc = "exited" /\ exit_code = 0
    /\ stdout = <<"libv5rts already patched">>
    /\ include_dir[NameA].kind = "file" /\ include_dir[NameB].kind = "file"
    /\ patched_dir[NameA] = FileEntry(patched_text(include_dir[NameA].data, linesep))
    /\ patched_dir[NameB] = NoEntry

----------------------------------------------------------------------------
\* The place of the attribute, checked under SpecLines.

\* C16: of a function declaration of several lines (the first without ");",
\* the last with it) the first line is emitted behind the attribute and the
\* last line as it is.
C16_AttributeAtStart ==
    /\ [][(AtLine /\ ~skip_next_line /\ line = LineDeclOpen
             /\ line_i < Len(lines) /\ lines[line_i + 1] = LineDeclClose) =>
             output' = output \o Patched(line)]_vars
    /\ [][(AtLine /\ ~skip_next_line /\ line = LineDeclClose
             /\ line_i > 1 /\ lines[line_i - 1] = LineDeclOpen) =>
             output' = output \o Verbatim(line)]_vars

----------------------------------------------------------------------------
\* The order of the rules, checked under SpecLines.

\* Rules 2 to 7 of the classifier, by number.
RuleMatches(r, l) ==
    CASE r = 2 -> is_comment(l)
      [] r = 3 -> is_directive(l)
      [] r = 4 -> is_block_marker(l)
      [] r = 5 -> is_type_decl(l)
      [] r = 6 -> is_blank(l)
      [] r = 7 -> no_call_end(l)

\* The loop body with rules 2 to 7 tried in the order `order`, rule 1 before
\* them and rule 8 after them.
OrderedBody(order, l, skip, out) ==
    IF skip THEN continuation(l, skip, out)
    ELSE IF \E k \in 1..Len(order) : RuleMatches(order[k], l)
         THEN LET k == CHOOSE k \in 1..Len(order) :
                          /\ RuleMatches(order[k], l)
                          /\ \A j \in 1..(k - 1) : ~RuleMatches(order[j], l)
              IN  IF order[k] = 3 THEN directive(l, skip, out)
                  ELSE [skip_next_line |-> skip, output |-> emit(out, l)]
    ELSE [skip_next_line |-> skip, output |-> emit_patched(out, l)]

RECURSIVE RunOrdered(_, _, _, _)
RunOrdered(order, ls, skip, out) ==
    IF ls = <<>> THEN out
    ELSE LET r == OrderedBody(order, Head(ls), skip, out)
         IN  RunOrdered(order, Tail(ls), r.skip_next_line, r.output)

RuleOrder == <<2, 3, 4, 5, 6, 7>>
RuleOrders ==
    {o \in [1..6 -> 2..7] : \A i, j \in 1..6 : i # j => o[i] # o[j]}

\* C17: the script applies rules 2 to 7 in the order 2, 3, 4, 5, 6, 7, and
\* there is an input on which another order of them gives another output:
\* for a directive ending in a backslash followed by a declaration, some
\* order does not give the output of the script.
C17_OrderMatters ==
    LoopDone =>
        /\ output = RunOrdered(RuleOrder, lines, FALSE, <<>>)
        /\ lines = <<LineMacro, LineDecl>> =>
               \E o \in RuleOrders : RunOrdered(o, lines, FALSE, <<>>) # output

\* with rule 7 before rule 3 the directive does not set the flag and the
\* declaration after it is kept
C17_Witness ==
    /\ LoopDone /\ lines = <<LineMacro, LineDecl>>
    /\ output = Verbatim(LineMacro)
    /\ RunOrdered(<<2, 7, 3, 4, 5, 6>>, lines, FALSE, <<>>)
           = Verbatim(LineMacro) \o Patched(LineDecl)

\* A header of comment lines only, the input the order is said to show on,
\* does not tell the orders apart: every order gives the output of the script.
C17_CommentsOrderFree ==
    (LoopDone /\ \A k \in 1..Len(lines) : lines[k] \in {LineComment, LineStarCall, LineCommentCont}) =>
        \A o \in RuleOrders : RunOrdered(o, lines, FALSE, <<>>) = output

----------------------------------------------------------------------------
\* Termination of the line loop, checked under SpecLinesFair.

\* C18: the line loop handles every line of the header once, in order, and
\* ends, whatever the lines are and whether or not the flag is still set at
\* the end; the step for a line can always be taken.
C18_Total ==
    /\ [][AtLine => (line_i' = line_i + 1 /\ lines' = lines /\ pc' = "line")]_vars
    /\ [](AtLine => ENABLED LineStep)
    /\ (pc = "line") ~> LoopDone

\* a header that ends inside a macro continuation has been processed to its end
C18_Witness ==
    /\ LoopDone
    /\ lines = <<LineStmt, LineMacro, LineContCall, LineContCall>>
    /\ skip_next_line
    /\ output = Verbatim(LineStmt) \o Verbatim(LineMacro)

----------------------------------------------------------------------------
\* Properties of version.py, checked under SpecVersion.

\* version.py has run to its end and has rewritten include/api.h.
Stamped == vpc = "done" /\ exception = ""

\* What follows `def` and a blank, up to the end of the line, on the line of
\* include/api.h that starts with `def`.
value_of(def) ==
    LET ls == readlines(api_h)
        i  == CHOOSE k \in 1..Len(ls) : startswith(ls[k], def \o <<" ">>)
    IN  SubSeq(ls[i], Len(def) + 2, Len(ls[i]) - 1)

\* The dot-separated components of s.
Components(s) == split(s, ".", Len(s))

\* The tag in the describe output, and the base version made of it.
DescribedTag == IF contains(v, DASH) THEN base_tag(v) ELSE v
BaseVersion ==
    IF contains(v, DASH)
    THEN LET c == Components(base_tag(v))
         IN  join_lines(SubSeq(c, 1, Len(c) - 1), DOT) \o str(int(c[Len(c)]) + 1)
    ELSE v

\* The three macros hold the three numeric components of the base version.
StampedAsBase ==
    LET b == Components(BaseVersion)
    IN  /\ Len(b) = 3
        /\ \A i \in 1..Len(b) : isdigits(b[i])
        /\ value_of(DEF_MAJOR) = b[1]
        /\ value_of(DEF_MINOR) = b[2]
        /\ value_of(DEF_PATCH) = b[3]
        /\ \E k \in 1..Len(readlines(api_h)) : readlines(api_h)[k] = string_line(semver)

\* C19: for every describe output that passes the assertion of l.28, the
\* values written to PROS_VERSION_MAJOR, PROS_VERSION_MINOR and
\* PROS_VERSION_PATCH are the three numeric components of the base version
\* (the describe output itself without a `-`, otherwise the tag before the
\* first `-` with its last component incremented by 1), and the suffix is in
\* PROS_VERSION_STRING only.
C19_VersionStamp == Stamped => StampedAsBase

\* For a tag of three numeric components the macros are stamped as C19 says.
C19_ThreeComponentTags ==
    (/\ Stamped
     /\ Len(Components(DescribedTag)) = 3
     /\ \A i \in 1..3 : isdigits(Components(DescribedTag)[i])) => StampedAsBase

\* a build of a commit after the tag 3.1.9 has been stamped as version 3.1.10
C19_Stamped3110 ==
    /\ Stamped
    /\ DescribedTag = Tag319
    /\ contains(v, DASH)
    /\ value_of(DEF_PATCH) = <<"1", "0">>

====
